---- MODULE Spec2Model ----
(***************************************************************************)
(* Model of src/dashboard.py (Symbiotic Dashboard V8, a Streamlit script). *)
(*                                                                         *)
(* Numbers.  Python floats are modelled exactly: money and quantities are  *)
(* integers (prices in hundredths of a currency unit, so that the 0.01     *)
(* floor of line 422 is the integer 1), and every quotient is kept as a    *)
(* fraction [num, den] with den > 0 and compared by cross multiplication.  *)
(* Floating-point rounding is outside the model.                           *)
(*                                                                         *)
(* Field values.  A field of a row returned by the data source is either   *)
(* missing from the row (Absent), present with the value None, or a        *)
(* number.                                                                 *)
(***************************************************************************)
EXTENDS Integers, Sequences, FiniteSets, TLC

VARIABLES
    session_state,  \* st.session_state of every browser session
    cache,          \* st.cache_data: one entry per cached fetch function
    db,             \* the tables of the remote data source
    page,           \* what each session's last script run rendered
    lastRun,        \* the fetches of the last script run (queries and returns)
    args,           \* the collections and widget values main() works on
    view            \* what main() computes and renders from args

vars == <<session_state, cache, db, page, lastRun, args, view>>

----------------------------------------------------------------------------
(* Python values and the idioms the script uses on them *)

Absent == [t |-> "absent", n |-> 0]
None == [t |-> "none", n |-> 0]
Num(n) == [t |-> "num", n |-> n]

\* d.get(key, default): the default only when the key is missing; a key
\* present with None yields None.
dict_get(v, default) == IF v.t = "absent" THEN Num(default) ELSE v

\* (x or 0): None and 0 both become 0.
or_zero(v) == IF v.t = "none" \/ v.n = 0 THEN Num(0) ELSE v

\* x > 0 raises TypeError when x is None.
gt_zero_raises(v) == v.t = "none"

gt_zero(v) == v.n > 0

\* str.lower() on the values of the "Filter by Type" selectbox.
lower(s) ==
    CASE s = "Crypto" -> "crypto"
      [] s = "Stock" -> "stock"
      [] s = "All" -> "all"
      [] OTHER -> s

RECURSIVE sum(_)
sum(s) == IF s = <<>> THEN 0 ELSE Head(s) + sum(Tail(s))

RECURSIVE max(_)
max(s) ==
    IF Len(s) = 1 THEN Head(s)
    ELSE LET m == max(Tail(s)) IN IF Head(s) >= m THEN Head(s) ELSE m

max2(a, b) == IF a >= b THEN a ELSE b

Rat(n, d) == [num |-> n, den |-> d]

RatEq(a, b) == a.num * b.den = b.num * a.den

RatLeq(a, b) == a.num * b.den <= b.num * a.den

RatLess(a, b) == a.num * b.den < b.num * a.den

----------------------------------------------------------------------------
(* Program constants *)

LowBand == 33

MediumBand == 66

ScoreCap == 100

PriceFloor == 1

ShortTtl == 30

LongTtl == 300

----------------------------------------------------------------------------
(* main(): the derived metrics, lines 287-655 *)

crypto_data(market_data) ==
    SelectSeq(market_data, LAMBDA d: d.assets.type = "crypto")

stock_data(market_data) ==
    SelectSeq(market_data, LAMBDA d: d.assets.type = "stock")

total_portfolio_value(holdings) ==
    sum([i \in 1..Len(holdings) |->
            or_zero(dict_get(holdings[i].current_value, 0)).n])

total_holdings_count_raises(holdings) ==
    \E i \in 1..Len(holdings) : gt_zero_raises(dict_get(holdings[i].quantity, 0))

total_holdings_count(holdings) ==
    Len(SelectSeq(holdings, LAMBDA h: gt_zero(dict_get(h.quantity, 0))))

\* The mean taken over the quotes that carry a change only.
avg_change_skipping_null(market_data) ==
    LET known == SelectSeq(market_data,
                           LAMBDA d: dict_get(d.price_change_pct, 0).t = "num")
    IN  Rat(sum([i \in 1..Len(known) |-> known[i].price_change_pct.n]),
            max2(Len(known), 1))

avg_change(market_data) ==
    Rat(sum([i \in 1..Len(market_data) |->
                or_zero(dict_get(market_data[i].price_change_pct, 0)).n]),
        max2(Len(market_data), 1))

total_cost(holdings) ==
    sum([i \in 1..Len(holdings) |->
            or_zero(dict_get(holdings[i].cost_basis, 0)).n])

total_gain_pct(gain, cost) ==
    IF cost > 0 THEN Rat(gain * 100, cost) ELSE Rat(0, 1)

\* The pie comprehension without its filter: every holding gets a row.
pie_rows_unfiltered(holdings) ==
    [exc |-> "none",
     rows |-> [i \in 1..Len(holdings) |->
                  [Asset |-> holdings[i].assets.name,
                   Value |-> or_zero(dict_get(holdings[i].current_value, 0)).n]]]

\* The list comprehension of create_portfolio_pie_chart, row by row: the
\* filter is evaluated first (TypeError on a None current_value), then
\* h['assets']['name'] (KeyError when the fetch attached no asset).
RECURSIVE pie_rows(_)
pie_rows(holdings) ==
    IF holdings = <<>> THEN [exc |-> "none", rows |-> <<>>]
    ELSE LET h == Head(holdings)
             cv == dict_get(h.current_value, 0)
             rest == pie_rows(Tail(holdings))
         IN  IF gt_zero_raises(cv) THEN [exc |-> "TypeError", rows |-> <<>>]
             ELSE IF ~gt_zero(cv) THEN rest
             ELSE IF ~h.assets.present THEN [exc |-> "KeyError", rows |-> <<>>]
             ELSE IF rest.exc # "none" THEN rest
             ELSE [exc |-> "none",
                   rows |-> <<[Asset |-> h.assets.name,
                               Value |-> or_zero(cv).n]>> \o rest.rows]

\* fig is None (nothing drawn) for no holdings or an empty frame.
create_portfolio_pie_chart(holdings) ==
    IF holdings = <<>> THEN [exc |-> "none", fig |-> FALSE, rows |-> <<>>]
    ELSE LET r == pie_rows(holdings)
         IN  [exc |-> r.exc, fig |-> r.exc = "none" /\ r.rows # <<>>, rows |-> r.rows]

\* The gain/loss % dividing by the average price as it is.
holding_gain_pct_unfloored(h) ==
    LET price == dict_get(h.average_price, 100).n
    IN  Rat((or_zero(dict_get(h.current_price, 0)).n - price) * 100, price)

\* Line 422; the default 1 of h.get('average_price', 1) is 100 hundredths.
holding_gain_pct(h) ==
    LET floor == max2(dict_get(h.average_price, 100).n, PriceFloor)
    IN  Rat((or_zero(dict_get(h.current_price, 0)).n - floor) * 100, floor)

\* The holdings breakdown comprehension, lines 416-423.
RECURSIVE breakdown_rows(_)
breakdown_rows(holdings) ==
    IF holdings = <<>> THEN [exc |-> "none", rows |-> <<>>]
    ELSE LET h == Head(holdings)
             q == dict_get(h.quantity, 0)
             rest == breakdown_rows(Tail(holdings))
         IN  IF gt_zero_raises(q) THEN [exc |-> "TypeError", rows |-> <<>>]
             ELSE IF ~gt_zero(q) THEN rest
             ELSE IF ~h.assets.present THEN [exc |-> "KeyError", rows |-> <<>>]
             ELSE IF dict_get(h.average_price, 100).t = "none"
                  THEN [exc |-> "TypeError", rows |-> <<>>]
             ELSE IF rest.exc # "none" THEN rest
             ELSE [exc |-> "none",
                   rows |-> <<[Asset |-> h.assets.name,
                               Quantity |-> or_zero(q).n,
                               Value |-> or_zero(dict_get(h.current_value, 0)).n,
                               GainLossPct |-> holding_gain_pct(h)]>> \o rest.rows]

\* The filters with an exclusive minimum score.
filter_signals_strict(signals, signal_filter, type_filter, min_score) ==
    LET by_signal == IF signal_filter # "All"
                     THEN SelectSeq(signals, LAMBDA s: s.signal = signal_filter)
                     ELSE signals
        by_type == IF type_filter # "All"
                   THEN SelectSeq(by_signal,
                                  LAMBDA s: s.assets.type = lower(type_filter))
                   ELSE by_signal
    IN  SelectSeq(by_type,
                  LAMBDA s: or_zero(dict_get(s.score, 0)).n > min_score)

\* Lines 463-470: the three filters applied one after the other.
filter_signals(signals, signal_filter, type_filter, min_score) ==
    LET by_signal == IF signal_filter # "All"
                     THEN SelectSeq(signals, LAMBDA s: s.signal = signal_filter)
                     ELSE signals
        by_type == IF type_filter # "All"
                   THEN SelectSeq(by_signal,
                                  LAMBDA s: s.assets.type = lower(type_filter))
                   ELSE by_signal
    IN  SelectSeq(by_type,
                  LAMBDA s: or_zero(dict_get(s.score, 0)).n >= min_score)

\* Line 523: the positive current values (TypeError on a None value).
holdings_values_raises(holdings) ==
    \E i \in 1..Len(holdings) :
        gt_zero_raises(dict_get(holdings[i].current_value, 0))

\* Line 523 without its filter.
holdings_values_unfiltered(holdings) ==
    [i \in 1..Len(holdings) |-> or_zero(dict_get(holdings[i].current_value, 0)).n]

holdings_values(holdings) ==
    LET pos == SelectSeq(holdings, LAMBDA h: gt_zero(dict_get(h.current_value, 0)))
    IN  [i \in 1..Len(pos) |-> or_zero(dict_get(pos[i].current_value, 0)).n]

RECURSIVE min(_)
min(s) ==
    IF Len(s) = 1 THEN Head(s)
    ELSE LET m == min(Tail(s)) IN IF Head(s) <= m THEN Head(s) ELSE m

\* The score taken from the smallest share instead of the largest.
concentration_score_of_min(values) ==
    IF values # <<>>
    THEN LET amplified == Rat(min(values) * 100 * 3, sum(values) * 2)
         IN  IF RatLeq(amplified, Rat(ScoreCap, 1)) THEN amplified
             ELSE Rat(ScoreCap, 1)
    ELSE Rat(0, 1)

\* The score without its cap.
concentration_score_uncapped(values) ==
    IF values # <<>>
    THEN Rat(max(values) * 100 * 3, sum(values) * 2)
    ELSE Rat(0, 1)

\* Lines 524-528: max share x 100 x 1.5, capped at 100.
concentration_score(values) ==
    IF values # <<>>
    THEN LET pct == Rat(max(values) * 100, sum(values))
             amplified == Rat(pct.num * 3, pct.den * 2)
         IN  IF RatLeq(amplified, Rat(ScoreCap, 1)) THEN amplified
             ELSE Rat(ScoreCap, 1)
    ELSE Rat(0, 1)

\* Lines 539-544.
risk_interpretation(score) ==
    IF RatLess(score, Rat(LowBand, 1)) THEN "Low"
    ELSE IF RatLess(score, Rat(MediumBand, 1)) THEN "Medium"
    ELSE "High"

\* Lines 628-630.
health_pct(system_health) ==
    LET healthy == Len(SelectSeq(system_health, LAMBDA c: c.status = "healthy"))
        total == Len(system_health)
    IN  IF total > 0 THEN Rat(healthy * 100, total) ELSE Rat(0, 1)

BlankView ==
    [status |-> "ok",
     top |-> FALSE, total_assets |-> 0, crypto_count |-> 0, stock_count |-> 0,
     avg_change |-> Rat(0, 1), total_portfolio_value |-> 0,
     total_holdings_count |-> 0,
     portfolio |-> FALSE, total_cost |-> 0, total_gain |-> 0,
     total_gain_pct |-> Rat(0, 1),
     pie |-> FALSE, pie_fig |-> FALSE, pie_df |-> <<>>,
     breakdown |-> FALSE, holdings_df |-> <<>>,
     signals |-> FALSE, filtered_signals |-> <<>>,
     risk |-> FALSE, concentration_score |-> Rat(0, 1), risk_level |-> "",
     health |-> FALSE, health_pct |-> Rat(0, 1)]

\* Lines 296-312: the top metrics.  Line 298 raises before anything of the
\* section is rendered.
top_metrics(v, market_data, holdings) ==
    IF total_holdings_count_raises(holdings)
    THEN [v EXCEPT !.status = "TypeError"]
    ELSE [v EXCEPT !.top = TRUE,
                   !.total_assets = Len(market_data),
                   !.crypto_count = Len(crypto_data(market_data)),
                   !.stock_count = Len(stock_data(market_data)),
                   !.avg_change = avg_change(market_data),
                   !.total_portfolio_value = total_portfolio_value(holdings),
                   !.total_holdings_count = total_holdings_count(holdings)]

\* Lines 384-440: tab 2.
tab_portfolio(v, holdings) ==
    IF v.total_holdings_count = 0 THEN v
    ELSE LET cost == total_cost(holdings)
             gain == v.total_portfolio_value - cost
             v1 == [v EXCEPT !.portfolio = TRUE,
                             !.total_cost = cost,
                             !.total_gain = gain,
                             !.total_gain_pct = total_gain_pct(gain, cost)]
             chart == create_portfolio_pie_chart(holdings)
             v2 == [v1 EXCEPT !.pie = TRUE,
                              !.pie_fig = chart.fig,
                              !.pie_df = chart.rows]
             rows == breakdown_rows(holdings)
         IN  IF chart.exc # "none" THEN [v1 EXCEPT !.status = chart.exc]
             ELSE IF rows.exc # "none" THEN [v2 EXCEPT !.status = rows.exc]
             ELSE [v2 EXCEPT !.breakdown = TRUE, !.holdings_df = rows.rows]

\* Lines 445-511: tab 3.
tab_signals(v, signals, widgets) ==
    IF signals = <<>> THEN v
    ELSE [v EXCEPT !.signals = TRUE,
                   !.filtered_signals =
                       filter_signals(signals, widgets.signal_filter,
                                      widgets.type_filter, widgets.min_score)]

\* Lines 516-571: tab 4.
tab_risk(v, holdings) ==
    IF v.total_holdings_count = 0 THEN v
    ELSE IF holdings_values_raises(holdings) THEN [v EXCEPT !.status = "TypeError"]
    ELSE LET score == concentration_score(holdings_values(holdings))
         IN  [v EXCEPT !.risk = TRUE,
                       !.concentration_score = score,
                       !.risk_level = risk_interpretation(score)]

\* Lines 621-650: tab 6.
tab_health(v, system_health) ==
    IF system_health = <<>> THEN v
    ELSE [v EXCEPT !.health = TRUE, !.health_pct = health_pct(system_health)]

\* An exception ends the script run: what was rendered before it stays on
\* the page, nothing after it is computed.
main(market_data, holdings, signals, widgets, system_health) ==
    IF market_data = <<>> THEN [BlankView EXCEPT !.status = "no_market_data"]
    ELSE LET v1 == top_metrics(BlankView, market_data, holdings)
             v2 == IF v1.status # "ok" THEN v1 ELSE tab_portfolio(v1, holdings)
             v3 == IF v2.status # "ok" THEN v2 ELSE tab_signals(v2, signals, widgets)
             v4 == IF v3.status # "ok" THEN v3 ELSE tab_risk(v3, holdings)
         IN  IF v4.status # "ok" THEN v4 ELSE tab_health(v4, system_health)

----------------------------------------------------------------------------
(* The data source and the cached fetch functions, lines 67-170 *)

Users == {"u1", "u2"}

\* The assets table: immutable reference data.
AssetsTable ==
    <<[id |-> "a1", name |-> "Bitcoin", symbol |-> "BTC", type |-> "crypto",
       currency |-> "USD"],
      [id |-> "a2", name |-> "Apple", symbol |-> "AAPL", type |-> "stock",
       currency |-> "USD"]>>

\* supabase.table('assets').select('*').eq('symbol', ticker).limit(1)
assets_by_symbol(ticker) ==
    LET found == SelectSeq(AssetsTable, LAMBDA a: a.symbol = ticker)
    IN  IF found = <<>> THEN <<>> ELSE <<Head(found)>>

\* supabase.table('holdings').select('*').eq('user_id', user_id)
holdings_of(table, user_id) == SelectSeq(table, LAMBDA h: h.user_id = user_id)

\* Lines 100-118: the asset attached to a holding; none when the ticker is
\* falsy (None or '', here the empty string).  The rows of the modelled
\* table carry no company_name, so the placeholder is named after the ticker.
resolved_asset(holding, asset_rows) ==
    IF holding.ticker = ""
    THEN [present |-> FALSE, id |-> "", name |-> "", symbol |-> "",
          type |-> "", currency |-> ""]
    ELSE IF asset_rows # <<>>
    THEN [present |-> TRUE, id |-> asset_rows[1].id, name |-> asset_rows[1].name,
          symbol |-> asset_rows[1].symbol, type |-> asset_rows[1].type,
          currency |-> asset_rows[1].currency]
    ELSE [present |-> TRUE, id |-> "", name |-> holding.ticker,
          symbol |-> holding.ticker, type |-> "stock", currency |-> "GBP"]

\* Line 123 keeping a cost basis the data source supplies.
holding_cost_basis_trusting(holding) ==
    IF holding.cost_basis.t = "num" THEN holding.cost_basis
    ELSE Num(or_zero(dict_get(holding.avg_price, 0)).n
             * or_zero(dict_get(holding.quantity, 0)).n)

\* Line 123.
holding_cost_basis(holding) ==
    Num(or_zero(dict_get(holding.avg_price, 0)).n
        * or_zero(dict_get(holding.quantity, 0)).n)

\* Lines 99-123 for one holding.
enrich(holding, asset_rows) ==
    [user_id |-> holding.user_id,
     ticker |-> holding.ticker,
     quantity |-> holding.quantity,
     avg_price |-> holding.avg_price,
     current_value |-> holding.current_value,
     assets |-> resolved_asset(holding, asset_rows),
     average_price |-> dict_get(holding.avg_price, 0),
     current_price |-> dict_get(holding.avg_price, 0),
     cost_basis |-> holding_cost_basis(holding)]

\* The loop catching a failed asset query itself and returning the holdings
\* enriched before it.
RECURSIVE enrich_all_partial(_, _)
enrich_all_partial(holdings, fail_at) ==
    IF holdings = <<>> THEN [raised |-> FALSE, rows |-> <<>>]
    ELSE LET h == Head(holdings)
             queried == h.ticker # ""
         IN  IF queried /\ fail_at = 1 THEN [raised |-> FALSE, rows |-> <<>>]
             ELSE [raised |-> FALSE,
                   rows |-> <<enrich(h, IF queried THEN assets_by_symbol(h.ticker)
                                        ELSE <<>>)>>
                            \o enrich_all_partial(Tail(holdings),
                                   IF queried /\ fail_at > 0 THEN fail_at - 1
                                   ELSE fail_at).rows]

\* The loop of lines 98-123.  fail_at numbers the asset queries still to be
\* made: the query numbered 1 raises (0: none does).
RECURSIVE enrich_all(_, _)
enrich_all(holdings, fail_at) ==
    IF holdings = <<>> THEN [raised |-> FALSE, rows |-> <<>>]
    ELSE LET h == Head(holdings)
             queried == h.ticker # ""
             rest == enrich_all(Tail(holdings),
                                IF queried /\ fail_at > 0 THEN fail_at - 1
                                ELSE fail_at)
         IN  IF queried /\ fail_at = 1 THEN [raised |-> TRUE, rows |-> <<>>]
             ELSE IF rest.raised THEN rest
             ELSE [raised |-> FALSE,
                   rows |-> <<enrich(h, IF queried THEN assets_by_symbol(h.ticker)
                                        ELSE <<>>)>> \o rest.rows]

\* A fetch returns [ret, err]: the collection handed to the caller and
\* whether st.error reported an error.  fail_at is the number, in the order
\* the fetch makes its queries, of the query that raises (0: none does).
fetch_holdings(user_id, table, fail_at) ==
    IF user_id = "" THEN [ret |-> <<>>, err |-> FALSE]
    ELSE IF fail_at = 1 THEN [ret |-> <<>>, err |-> TRUE]
    ELSE LET r == enrich_all(holdings_of(table, user_id),
                             IF fail_at > 1 THEN fail_at - 1 ELSE 0)
         IN  IF r.raised THEN [ret |-> <<>>, err |-> TRUE]
             ELSE [ret |-> r.rows, err |-> FALSE]

\* fetch_market_data, fetch_signals, fetch_prediction_markets and
\* fetch_system_health: one query, whose ordering and limit the data source
\* applies (the tables of db are kept in that order).
fetch_table(table, fail_at) ==
    IF fail_at = 1 THEN [ret |-> <<>>, err |-> TRUE]
    ELSE [ret |-> table, err |-> FALSE]

fetch_market_data(table, fail_at) == fetch_table(table, fail_at)

fetch_signals(table, fail_at) == fetch_table(table, fail_at)

fetch_prediction_markets(table, fail_at) == fetch_table(table, fail_at)

fetch_system_health(table, fail_at) == fetch_table(table, fail_at)

----------------------------------------------------------------------------
(* Sessions, the result cache and one run of the script, lines 35-62,       *)
(* 257-290 and 685-689                                                      *)

Sessions == {"s1", "s2"}

Fetches == {"market_data", "holdings", "signals", "prediction_markets",
            "system_health"}

\* The e-mail addresses of the identity provider's accounts and their users.
Emails == {"u1@x", "u2@x"}

user_of(email) == IF email = "u1@x" THEN "u1" ELSE "u2"

\* st.session_state: a dictionary, here a function on the keys present.
NoKeys == [k \in {} |-> ""]

ss_get(state, key) == IF key \in DOMAIN state THEN state[key] ELSE ""

\* The check with a default of True for a session without the flag.
check_authentication_default_true(state) ==
    IF "authenticated" \in DOMAIN state THEN state["authenticated"] = "True"
    ELSE TRUE

check_authentication(state) == ss_get(state, "authenticated") = "True"

\* Lines 43-47.
login_state(state, email, user_id) ==
    [k \in DOMAIN state \cup {"authenticated", "user_id", "email"} |->
        CASE k = "authenticated" -> "True"
          [] k = "user_id" -> user_id
          [] k = "email" -> email
          [] OTHER -> state[k]]

\* Lines 56-57.
logout_state(state) == [k \in {j \in DOMAIN state : FALSE} |-> ""]

DefaultWidgets == [signal_filter |-> "All", type_filter |-> "All", min_score |-> 0]

EmptyEntry == [valid |-> FALSE, ret |-> <<>>, err |-> FALSE]

\* A call of an @st.cache_data function: a valid entry is returned (with the
\* st.error it recorded) and no query is made; otherwise the function runs
\* and what it returns is stored.
cached_call(entry, result) ==
    IF entry.valid THEN [ret |-> entry.ret, err |-> entry.err] ELSE result

\* What a run leaves on a session's page: the screen, the quotes of the
\* market table, the holdings main() was given, and whether tab 6 rendered
\* its "Refresh System Health" button.
LoginPage ==
    [screen |-> "login", market_data |-> <<>>, holdings |-> <<>>,
     refresh_button |-> FALSE]

\* The five calls of lines 281-285.  fails gives, per fetch, the number of
\* the query of that fetch that raises.
fetch_all(state, entries, tables, fails) ==
    [f \in Fetches |->
        cached_call(entries[f],
            CASE f = "market_data" ->
                   fetch_market_data(tables.market_data, fails[f])
              [] f = "holdings" ->
                   fetch_holdings(ss_get(state, "user_id"),
                                  tables.holdings, fails[f])
              [] f = "signals" ->
                   fetch_signals(tables.signals, fails[f])
              [] f = "prediction_markets" ->
                   fetch_prediction_markets(tables.predictions, fails[f])
              [] OTHER ->
                   fetch_system_health(tables.system_health, fails[f]))]

\* A run that keeps the quotes on the page when the market fetch returns
\* none.
main_run_stale(session, fails, res, v) ==
    [page |-> [screen |-> "dashboard",
               market_data |-> IF res["market_data"].ret = <<>>
                               THEN page[session].market_data
                               ELSE res["market_data"].ret,
               holdings |-> res["holdings"].ret,
               refresh_button |-> v.health],
     cache |-> [f \in Fetches |->
                   [valid |-> TRUE, ret |-> res[f].ret, err |-> res[f].err]],
     run |-> [session |-> session, fails |-> fails,
              ret |-> [f \in Fetches |-> res[f].ret],
              err |-> {f \in Fetches : res[f].err}]]

\* What a run of main() leaves behind, given what its fetches returned:
\* the page, the cache entries, and the record of the run (the failing
\* queries chosen for it, what each fetch returned and reported).
main_run(session, fails, res, v) ==
    [page |-> [screen |-> "dashboard",
               market_data |-> res["market_data"].ret,
               holdings |-> res["holdings"].ret,
               refresh_button |-> v.health],
     cache |-> [f \in Fetches |->
                   [valid |-> TRUE, ret |-> res[f].ret, err |-> res[f].err]],
     run |-> [session |-> session, fails |-> fails,
              ret |-> [f \in Fetches |-> res[f].ret],
              err |-> {f \in Fetches : res[f].err}]]

main_of(session, fails, res) ==
    main_run(session, fails, res,
             main(res["market_data"].ret, res["holdings"].ret,
                  res["signals"].ret, DefaultWidgets, res["system_health"].ret))

\* One run of the script for a session whose state is `state`: the routing
\* of lines 685-689, then login_screen() or main().
script_run(session, state, entries, tables, fails) ==
    IF ~check_authentication(state)
    THEN [page |-> LoginPage, cache |-> entries,
          run |-> [session |-> session, fails |-> fails,
                   ret |-> [f \in Fetches |-> <<>>], err |-> {}]]
    ELSE main_of(session, fails, fetch_all(state, entries, tables, fails))

----------------------------------------------------------------------------
(* The tables of the session model *)

Quote(name, symbol, type, pct) ==
    [assets |-> [name |-> name, symbol |-> symbol, type |-> type],
     price_change_pct |-> pct]

Holding(user_id, ticker, quantity, avg_price, current_value, cost_basis) ==
    [user_id |-> user_id, ticker |-> ticker, quantity |-> quantity,
     avg_price |-> avg_price, current_value |-> current_value,
     cost_basis |-> cost_basis]

Signal(id, kind, type, score) ==
    [id |-> id, signal |-> kind, assets |-> [type |-> type], score |-> score]

MarketV1 == <<Quote("Bitcoin", "BTC", "crypto", Num(5)),
              Quote("Apple", "AAPL", "stock", Num(-3))>>

MarketV2 == <<Quote("Bitcoin", "BTC", "crypto", Num(-3))>>

MarketVersions == {MarketV1, MarketV2}

HoldingsTable ==
    <<Holding("u1", "BTC", Num(1), Num(100), Num(300), Absent),
      Holding("u1", "XYZ", Num(2), Num(50), Num(100), Absent),
      Holding("u2", "AAPL", Num(1), Num(200), Num(200), Absent)>>

SignalsTable == <<Signal(1, "BUY", "crypto", Num(80))>>

PredictionsTable == <<[title |-> "Election", probability |-> Num(1)]>>

HealthTable == <<[component |-> "prices", status |-> "healthy"]>>

InitialDb ==
    [market_data |-> MarketV1, holdings |-> HoldingsTable, signals |-> SignalsTable,
     predictions |-> PredictionsTable, system_health |-> HealthTable]

\* The largest query number of a fetch that may be made to raise.
MaxQueries == 3

NoFails == [f \in Fetches |-> 0]

FailChoices ==
    {fl \in [Fetches -> 0..MaxQueries] :
        \A f \in Fetches : f # "holdings" => fl[f] <= 1}

\* The choices that differ in a query the run makes: a fetch answered from
\* the cache makes none.
FailsOf(entries) ==
    {fl \in FailChoices : \A f \in Fetches : entries[f].valid => fl[f] = 0}

NoRun ==
    [session |-> "", fails |-> [f \in Fetches |-> 0],
     ret |-> [f \in Fetches |-> <<>>], err |-> {}]

NoArgs ==
    [market_data |-> <<>>, holdings |-> <<>>, signals |-> <<>>,
     widgets |-> DefaultWidgets, system_health |-> <<>>]

----------------------------------------------------------------------------
(* The session model: logins, logouts, reruns, cache expiry *)

Init ==
    /\ session_state = [s \in Sessions |-> NoKeys]
    /\ cache = [f \in Fetches |-> EmptyEntry]
    /\ db = InitialDb
    /\ page = [s \in Sessions |-> LoginPage]
    /\ lastRun = NoRun
    /\ args = NoArgs
    /\ view = BlankView

Rendered(s, state, r) ==
    /\ session_state' = [session_state EXCEPT ![s] = state]
    /\ cache' = r.cache
    /\ page' = [page EXCEPT ![s] = r.page]
    /\ lastRun' = r.run
    /\ UNCHANGED <<db, args, view>>

\* The rerun that ends a handler: the script runs again for the session.
Rerun(s, state, entries, fails) ==
    Rendered(s, state, script_run(s, state, entries, db, fails))

\* The Login button with credentials the identity provider accepts.
Login(s, email, fails) ==
    /\ page[s].screen = "login"
    /\ Rerun(s, login_state(session_state[s], email, user_of(email)), cache, fails)

\* The Login button when sign_in_with_password returns no user or raises.
LoginRejected(s) ==
    /\ page[s].screen = "login"
    /\ page' = [page EXCEPT ![s] = LoginPage]
    /\ UNCHANGED <<session_state, cache, db, lastRun, args, view>>

\* The Logout button of the sidebar.
Logout(s) ==
    /\ page[s].screen # "login"
    /\ Rerun(s, logout_state(session_state[s]), cache, NoFails)

\* What is left of the page when logout() raises in the sidebar: the
\* sidebar with its Logout button and the exception, nothing of main().
ErrorPage ==
    [screen |-> "error", market_data |-> <<>>, holdings |-> <<>>,
     refresh_button |-> FALSE]

\* The Logout button when supabase.auth.sign_out() raises: line 55 is not
\* guarded, so the keys are not deleted and the run ends with the exception.
LogoutFailed(s) ==
    /\ page[s].screen # "login"
    /\ page' = [page EXCEPT ![s] = ErrorPage]
    /\ lastRun' = [NoRun EXCEPT !.session = s]
    /\ UNCHANGED <<session_state, cache, db, args, view>>

\* Any other rerun of the script: a widget interaction or a page reload.
Refresh(s, fails) ==
    /\ page[s].screen # "login"
    /\ Rerun(s, session_state[s], cache, fails)

\* The "Refresh System Health" button of tab 6: st.cache_data.clear().
ClearCache(s, fails) ==
    /\ page[s].screen = "dashboard"
    /\ page[s].refresh_button
    /\ Rerun(s, session_state[s], [f \in Fetches |-> EmptyEntry], fails)

\* The entries with a ttl of `ttl` seconds.  Every run of main() calls the
\* five fetches one after the other, so the entries of one ttl are filled
\* by the same run and run out together.
ttl_group(ttl) ==
    IF ttl = LongTtl THEN {"prediction_markets"} ELSE Fetches \ {"prediction_markets"}

\* The ttl of the entries of a group runs out.
Expire(ttl) ==
    /\ \E f \in ttl_group(ttl) : cache[f].valid
    /\ cache' = [f \in Fetches |-> IF f \in ttl_group(ttl) THEN EmptyEntry ELSE cache[f]]
    /\ UNCHANGED <<session_state, db, page, lastRun, args, view>>

\* The update-prices job writes new quotes.
UpdatePrices(m) ==
    /\ m # db.market_data
    /\ db' = [db EXCEPT !.market_data = m]
    /\ UNCHANGED <<session_state, cache, page, lastRun, args, view>>

Next ==
    \/ \E s \in {"s1"}, e \in Emails, fl \in FailsOf(cache) : Login(s, e, fl)
    \/ \E s \in {"s1"} : LoginRejected(s)
    \/ \E s \in {"s1"} : Logout(s)
    \/ \E s \in {"s1"}, fl \in FailsOf(cache) : Refresh(s, fl)
    \/ \E s \in {"s1"}, fl \in FailChoices : ClearCache(s, fl)
    \/ \E ttl \in {ShortTtl, LongTtl} : Expire(ttl)
    \/ \E m \in MarketVersions : UpdatePrices(m)

Spec == Init /\ [][Next]_vars

\* The sessions model: every browser session acts, all sharing the one
\* process and its result cache; sign-in and sign-out may fail, the queries
\* of the fetches do not.
NextSessions ==
    \/ \E s \in Sessions, e \in Emails : Login(s, e, NoFails)
    \/ \E s \in Sessions : LoginRejected(s)
    \/ \E s \in Sessions : Logout(s)
    \/ \E s \in Sessions : LogoutFailed(s)
    \/ \E s \in Sessions : Refresh(s, NoFails)
    \/ \E ttl \in {ShortTtl, LongTtl} : Expire(ttl)

SpecSessions == Init /\ [][NextSessions]_vars

----------------------------------------------------------------------------
(* The metrics models: main() over bounded collections of records.  The     *)
(* data source holds the records, a run fetches them with an empty cache    *)
(* and no failing query, and main() renders them.                           *)

MaxRiskRows == 5

MaxPortfolioRows == 2

MaxSignals == 2

MaxQuotes == 3

\* The current values a holding is given (hundredths of a currency unit).
Values == {-1, 0, 1, 9}

SeqsUpTo(S, n) == UNION {[1..k -> S] : k \in 0..n}

\* Holdings that differ in their current value only.
RiskRows ==
    {Holding("u1", "BTC", Num(1), Num(100), Num(v), Absent) : v \in Values}

\* Holdings whose quantity, average price or current value is 0 or None,
\* with a ticker that has an asset, has none, or is missing.
PortfolioRows(cost_basis) ==
    {Holding("u1", "BTC", Num(q), Num(a), Num(v), cost_basis) :
        q \in {0, 2}, a \in {0, 150}, v \in {0, 9}}
    \cup {Holding("u1", "BTC", None, Num(150), Num(9), cost_basis),
          Holding("u1", "BTC", Num(2), None, Num(9), cost_basis),
          Holding("u1", "BTC", Num(2), Num(150), None, cost_basis),
          Holding("u1", "XYZ", Num(2), Num(150), Num(9), cost_basis),
          Holding("u1", "", Num(2), Num(150), Num(9), cost_basis)}

\* A holdings table without the numeric columns.
BareRows == {Holding("u1", "BTC", Absent, Absent, Absent, Absent)}

\* The cost_basis column of the table is missing, or holds some number the
\* data source supplies.
HoldingTables ==
    SeqsUpTo(RiskRows, MaxRiskRows)
    \cup SeqsUpTo(PortfolioRows(Absent), MaxPortfolioRows)
    \cup SeqsUpTo(PortfolioRows(Num(999)), MaxPortfolioRows)
    \cup SeqsUpTo(BareRows, MaxPortfolioRows)

SignalRows ==
    {Signal(0, k, t, sc) : k \in {"BUY", "SELL"}, t \in {"crypto", "stock"},
                           sc \in {None, Num(49), Num(50)}}

\* .order('score', desc=True): highest score first, NULLs before numbers.
ScoreDescending(rows) ==
    \A i, j \in 1..Len(rows) :
        i < j => \/ rows[i].score.t = "none"
                 \/ rows[j].score.t = "num" /\ rows[i].score.n >= rows[j].score.n

SignalTables ==
    {[i \in 1..Len(rows) |-> [rows[i] EXCEPT !.id = i]] :
        rows \in {r \in SeqsUpTo(SignalRows, MaxSignals) : ScoreDescending(r)}}

QuoteRows(pcts) ==
    {Quote("Bitcoin", "BTC", "crypto", pct) : pct \in pcts}
    \cup {Quote("Apple", "AAPL", "stock", pct) : pct \in pcts}

\* .order('assets(type)'): crypto before stock.
TypeAscending(rows) ==
    \A i, j \in 1..Len(rows) :
        i < j => ~(rows[i].assets.type = "stock" /\ rows[j].assets.type = "crypto")

Changes == {None, Num(-3), Num(5)}

\* The price_change_pct column holds numbers and NULLs, or is missing.
MarketTables ==
    {r \in SeqsUpTo(QuoteRows(Changes), MaxQuotes) \cup SeqsUpTo(QuoteRows({Absent}), MaxQuotes) :
        TypeAscending(r)}

\* The session the metrics models run main() for.
Viewer == login_state(NoKeys, "u1@x", "u1")

\* The collections the five fetches return for the viewer.
fetched(res, widgets) ==
    [market_data |-> res["market_data"].ret, holdings |-> res["holdings"].ret,
     signals |-> res["signals"].ret, widgets |-> widgets,
     system_health |-> res["system_health"].ret]

\* A run of main() on the tables d with the widgets w.  lastRun keeps the
\* step that led to it: the operation, the row it changed and the number
\* that row held before.
Run(d, w, op, index, was) ==
    /\ db' = d
    /\ args' = fetched(fetch_all(Viewer, [f \in Fetches |-> EmptyEntry], d, NoFails), w)
    /\ view' = main(args'.market_data, args'.holdings, args'.signals,
                    args'.widgets, args'.system_health)
    /\ lastRun' = [op |-> op, index |-> index, was |-> was]
    /\ UNCHANGED <<session_state, cache, page>>

InitMetrics ==
    /\ session_state = [s \in Sessions |-> NoKeys]
    /\ cache = [f \in Fetches |-> EmptyEntry]
    /\ page = [s \in Sessions |-> LoginPage]
    /\ lastRun = [op |-> "none", index |-> 0, was |-> 0]
    /\ args = NoArgs
    /\ view = BlankView

\* The first run of the script.
Render ==
    /\ lastRun.op = "none"
    /\ Run(db, DefaultWidgets, "Render", 0, 0)

\* The data source raises the current value of one holding, and the script
\* runs again.
RaiseValue(i, v) ==
    /\ lastRun.op # "none"
    /\ i \in 1..Len(db.holdings)
    /\ db.holdings[i].current_value.t = "num"
    /\ v > db.holdings[i].current_value.n
    /\ Run([db EXCEPT !.holdings[i].current_value = Num(v)], args.widgets,
           "RaiseValue", i, db.holdings[i].current_value.n)

\* The data source reprices one quote, and the script runs again.
Reprice(i, pct) ==
    /\ lastRun.op # "none"
    /\ i \in 1..Len(db.market_data)
    /\ db.market_data[i].price_change_pct.t # "absent"
    /\ pct # db.market_data[i].price_change_pct
    /\ Run([db EXCEPT !.market_data[i].price_change_pct = pct], args.widgets,
           "Reprice", i, 0)

\* The three filter widgets of tab 3, rendered when there are signals.
SelectSignalFilter(x) ==
    /\ view.signals
    /\ x # args.widgets.signal_filter
    /\ Run(db, [args.widgets EXCEPT !.signal_filter = x], "Select", 0, 0)

SelectTypeFilter(x) ==
    /\ view.signals
    /\ x # args.widgets.type_filter
    /\ Run(db, [args.widgets EXCEPT !.type_filter = x], "Select", 0, 0)

SlideMinScore(x) ==
    /\ view.signals
    /\ x # args.widgets.min_score
    /\ Run(db, [args.widgets EXCEPT !.min_score = x], "Select", 0, 0)

MinScores == {0, 50}

InitHoldings == InitMetrics /\ \E h \in HoldingTables : db = [InitialDb EXCEPT !.holdings = h]

NextHoldings ==
    \/ Render
    \/ \E i \in 1..MaxRiskRows, v \in Values : RaiseValue(i, v)

SpecHoldings == InitHoldings /\ [][NextHoldings]_vars

InitSignals == InitMetrics /\ \E t \in SignalTables : db = [InitialDb EXCEPT !.signals = t]

NextSignals ==
    \/ Render
    \/ \E x \in {"All", "BUY", "SELL", "HOLD"} : SelectSignalFilter(x)
    \/ \E x \in {"All", "Crypto", "Stock"} : SelectTypeFilter(x)
    \/ \E x \in MinScores : SlideMinScore(x)

SpecSignals == InitSignals /\ [][NextSignals]_vars

InitMarket == InitMetrics /\ \E t \in MarketTables : db = [InitialDb EXCEPT !.market_data = t]

NextMarket ==
    \/ Render
    \/ \E i \in 1..MaxQuotes, pct \in Changes : Reprice(i, pct)

SpecMarket == InitMarket /\ [][NextMarket]_vars

----------------------------------------------------------------------------
(* The claims about the holdings metrics, stated on the rows of the         *)
(* holdings table (a NULL or missing number counts as 0)                    *)

NumberOr0(v) == IF v.t = "num" THEN v.n ELSE 0

Rows == db.holdings

CurrentValue == [i \in 1..Len(Rows) |-> NumberOr0(Rows[i].current_value)]

Quantity == [i \in 1..Len(Rows) |-> NumberOr0(Rows[i].quantity)]

AveragePrice == [i \in 1..Len(Rows) |-> NumberOr0(Rows[i].avg_price)]

Positive == {i \in 1..Len(Rows) : CurrentValue[i] > 0}

RECURSIVE Total(_, _)
Total(f, S) ==
    IF S = {} THEN 0
    ELSE LET i == CHOOSE j \in S : TRUE IN f[i] + Total(f, S \ {i})

Largest(f, S) == CHOOSE m \in {f[i] : i \in S} : \A i \in S : f[i] <= m

ScoreIs(q) == RatEq(view.concentration_score, q)

\* C1 (as claimed): the derived-metric computations never raise on empty or
\* partially-null input; a None quantity, average price or current value
\* counts as 0 and main() completes.
C1_NeverRaises == view.status # "TypeError"

\* C4 (as claimed): when the current values of the holdings sum to 0, the
\* concentration score is 0 and the risk is Low.
C4_SumZeroScoresZero ==
    (view.risk /\ Total(CurrentValue, 1..Len(Rows)) = 0)
        => ScoreIs(Rat(0, 1)) /\ view.risk_level = "Low"

\* C4 (amended): when no holding has a current value above 0, the
\* concentration score main() computes is 0 and the risk is Low.
C4_NoPositiveScoresZero ==
    (view.risk /\ Positive = {}) => ScoreIs(Rat(0, 1)) /\ view.risk_level = "Low"

C4_Witness ==
    /\ view.risk
    /\ Positive = {}
    /\ \E i \in 1..Len(Rows) : CurrentValue[i] < 0
    /\ \E i \in 1..Len(Rows) : CurrentValue[i] = 0
    /\ ScoreIs(Rat(0, 1))
    /\ view.risk_level = "Low"

\* The step raised the current value of holding i and of no other.
RaisedOnly(i) ==
    /\ i \in 1..Len(Rows)
    /\ Len(db'.holdings) = Len(Rows)
    /\ Rows[i].current_value.t = "num"
    /\ db'.holdings[i].current_value.t = "num"
    /\ db'.holdings[i].current_value.n > Rows[i].current_value.n
    /\ db'.holdings = [Rows EXCEPT ![i].current_value = db'.holdings[i].current_value]

Dominant(i) == \A j \in 1..Len(Rows) : CurrentValue[j] <= CurrentValue[i]

ScoreNotLower == RatLeq(view.concentration_score, view'.concentration_score)

\* C5 (as claimed): raising the current value of any one holding, the
\* others fixed, never lowers the concentration score.
C5_RaisingAnyNeverLowers ==
    [][\A i \in 1..Len(Rows) :
          (view.risk /\ view'.risk /\ RaisedOnly(i)) => ScoreNotLower]_vars

\* C5 (amended): raising the current value of a holding that has the
\* largest current value, the others fixed, never lowers the score.
C5_RaisingDominantNeverLowers ==
    [][\A i \in 1..Len(Rows) :
          (view.risk /\ view'.risk /\ RaisedOnly(i) /\ Dominant(i)) => ScoreNotLower]_vars

C5_Witness ==
    /\ lastRun.op = "RaiseValue"
    /\ view.risk
    /\ Len(Rows) >= 2
    /\ \A j \in 1..Len(Rows) : j # lastRun.index => CurrentValue[j] = lastRun.was
    /\ lastRun.was > 0
    /\ ScoreIs(Rat(ScoreCap, 1))

\* C6: the score is 0 without a positive current value, and otherwise
\* min(largest / sum x 100 x 1.5, 100) over the positive current values; it
\* lies in [0, 100]; it is Low below 33, Medium below 66, High otherwise.
C6_ScoreAndLevel ==
    view.risk =>
        LET largest == Largest(CurrentValue, Positive)
            total == Total(CurrentValue, Positive)
            expected == IF Positive = {} THEN Rat(0, 1)
                        ELSE IF largest * 150 >= 100 * total THEN Rat(100, 1)
                        ELSE Rat(largest * 150, total)
            score == view.concentration_score
        IN  /\ score.den > 0
            /\ RatEq(score, expected)
            /\ RatLeq(Rat(0, 1), score) /\ RatLeq(score, Rat(100, 1))
            /\ view.risk_level = IF RatLess(score, Rat(33, 1)) THEN "Low"
                                 ELSE IF RatLess(score, Rat(66, 1)) THEN "Medium"
                                 ELSE "High"

\* The scenario of the spec: values [900, 100] score 100, High.
C6_Witness ==
    /\ view.risk
    /\ CurrentValue = <<9, 1>>
    /\ ScoreIs(Rat(100, 1))
    /\ view.risk_level = "High"

\* C8: total value = sum of the current values; total cost = sum of average
\* price x quantity, whatever cost basis the data source supplied; gain =
\* value - cost; gain % = gain / cost x 100 when cost > 0, else 0; active
\* holdings = the holdings with quantity > 0.
C8_PortfolioSummary ==
    LET value == Total(CurrentValue, 1..Len(Rows))
        cost == Total([i \in 1..Len(Rows) |-> AveragePrice[i] * Quantity[i]],
                      1..Len(Rows))
    IN  /\ view.top =>
              /\ view.total_portfolio_value = value
              /\ view.total_holdings_count =
                     Cardinality({i \in 1..Len(Rows) : Quantity[i] > 0})
        /\ view.portfolio =>
              /\ view.total_cost = cost
              /\ view.total_gain = value - cost
              /\ view.total_gain_pct.den > 0
              /\ RatEq(view.total_gain_pct,
                       IF cost > 0 THEN Rat((value - cost) * 100, cost) ELSE Rat(0, 1))

C8_Witness ==
    /\ view.portfolio
    /\ Len(Rows) = 2
    /\ \A i \in 1..Len(Rows) : Rows[i].cost_basis = Num(999)
    /\ view.total_cost = 600
    /\ view.total_portfolio_value = 9
    /\ view.total_holdings_count = 2

\* C9: the pie input has one row per holding with a current value above 0,
\* in the order of the holdings, none for the others, and its values sum to
\* the total of the positive current values.
C9_PieInput ==
    view.pie =>
        /\ Len(view.pie_df) = Cardinality(Positive)
        /\ [k \in 1..Len(view.pie_df) |-> view.pie_df[k].Value]
               = SelectSeq(CurrentValue, LAMBDA x: x > 0)
        /\ Total([k \in 1..Len(view.pie_df) |-> view.pie_df[k].Value],
                 1..Len(view.pie_df))
               = Total(CurrentValue, Positive)

C9_Witness ==
    /\ view.pie
    /\ Cardinality(Positive) = 2
    /\ \E i \in 1..Len(Rows) : CurrentValue[i] < 0
    /\ \E i \in 1..Len(Rows) : CurrentValue[i] = 0
    /\ Len(view.pie_df) = 2

----------------------------------------------------------------------------
(* The claims about the fetches and the refresh cycle, stated on the        *)
(* session model                                                            *)

\* The user the run of lastRun fetched for.
RunUser == ss_get(session_state[lastRun.session], "user_id")

\* The queries a fetch makes when it is not answered from the cache: one
\* for the table, and for the holdings one more per holding with a ticker.
QueriesMade(f) ==
    IF f # "holdings" THEN 1
    ELSE 1 + Cardinality({i \in 1..Len(db.holdings) :
                             /\ db.holdings[i].user_id = RunUser
                             /\ db.holdings[i].ticker # ""})

QueryFailed(f) == lastRun.fails[f] >= 1 /\ lastRun.fails[f] <= QueriesMade(f)

Authenticated == lastRun.session # "" /\ page[lastRun.session].screen = "dashboard"

\* C2: when a query of a fetch fails, the fetch returns an empty collection
\* and reports an error, and main() still runs; the holdings a fetch
\* returns are never a part of a user's holdings: they are empty or all of
\* them, each holding with a ticker having its asset attached.
C2_FailedFetchReturnsEmpty ==
    Authenticated =>
        /\ \A f \in Fetches :
              QueryFailed(f) => lastRun.ret[f] = <<>> /\ f \in lastRun.err
        /\ LET got == lastRun.ret["holdings"]
           IN  got # <<>> =>
                  \E u \in Users :
                      /\ \A i \in 1..Len(got) :
                            /\ got[i].user_id = u
                            /\ got[i].ticker # "" => got[i].assets.present
                      /\ Len(got) = Cardinality({i \in 1..Len(db.holdings) :
                                                    db.holdings[i].user_id = u})

\* C2 witness: the second asset query of the holdings fetch failed, after
\* the first holding was enriched; the other fetches succeeded.
C2_Witness ==
    /\ Authenticated
    /\ RunUser = "u1"
    /\ lastRun.fails["holdings"] = 3
    /\ lastRun.ret["holdings"] = <<>>
    /\ lastRun.err = {"holdings"}
    /\ lastRun.ret["market_data"] # <<>>

\* The step was a run of the script for session s that rendered main().
RanMain(s) ==
    /\ page' # page \/ lastRun' # lastRun
    /\ lastRun'.session = s
    /\ page'[s].screen = "dashboard"

\* C3 (as claimed): a refresh replaces the displayed market snapshot by the
\* current one, or, when its fetch fails, leaves the previous snapshot
\* displayed.
C3_FailedFetchKeepsSnapshot ==
    [][\A s \in Sessions :
          (RanMain(s) /\ page[s].screen = "dashboard" /\ page[s].market_data # <<>>)
              => \/ page'[s].market_data = db.market_data
                 \/ page'[s].market_data = page[s].market_data]_vars

\* C3 (amended): a run whose market fetch fails displays no market data
\* (the empty collection it returned replaces the snapshot); any other run
\* displays the current quotes or the cached ones.
C3_FailedFetchBlanksSnapshot ==
    [][\A s \in Sessions :
          RanMain(s) =>
              IF lastRun'.fails["market_data"] = 1
              THEN page'[s].market_data = <<>> /\ ~page'[s].refresh_button
              ELSE \/ page'[s].market_data = db.market_data
                   \/ /\ cache["market_data"].valid
                      /\ page'[s].market_data = cache["market_data"].ret]_vars

\* C3 witness: new quotes were written, the market fetch of the run failed
\* and the page shows no market data, while the holdings were fetched.
C3_Witness ==
    /\ Authenticated
    /\ lastRun.fails["market_data"] = 1
    /\ page[lastRun.session].market_data = <<>>
    /\ page[lastRun.session].holdings # <<>>
    /\ db.market_data = MarketV2

----------------------------------------------------------------------------
(* The claim about the signal filters, stated on the signals table *)

Widgets == args.widgets

TypeSelected ==
    IF Widgets.type_filter = "Crypto" THEN "crypto"
    ELSE IF Widgets.type_filter = "Stock" THEN "stock"
    ELSE "any"

Matches(s) ==
    /\ Widgets.signal_filter = "All" \/ s.signal = Widgets.signal_filter
    /\ Widgets.type_filter = "All" \/ s.assets.type = TypeSelected
    /\ NumberOr0(s.score) >= Widgets.min_score

\* C7: the filtered signals are exactly the signals that match every
\* selected filter (kind, type lower-cased, score with None as 0 at least
\* the minimum), in the order of the input; with every filter at "All" and
\* a minimum of 0 they are the whole input.
C7_FilterSignals ==
    view.signals =>
        LET out == view.filtered_signals
        IN  /\ {out[k].id : k \in 1..Len(out)}
                   = {i \in 1..Len(db.signals) : Matches(db.signals[i])}
            /\ \A k \in 1..Len(out) : out[k] = db.signals[out[k].id]
            /\ \A j, k \in 1..Len(out) : j < k => out[j].id < out[k].id
            /\ (Widgets = DefaultWidgets) => out = db.signals

\* C7 witness: the scenario of the spec, BUY / Crypto / 50, keeps the
\* signal scoring 50 and drops the one scoring 49.
C7_Witness ==
    /\ view.signals
    /\ Widgets = [signal_filter |-> "BUY", type_filter |-> "Crypto", min_score |-> 50]
    /\ Len(db.signals) = 2
    /\ db.signals[2].score = Num(49)
    /\ Len(view.filtered_signals) = 1
    /\ view.filtered_signals[1].score = Num(50)
    /\ view.filtered_signals[1].signal = "BUY"
    /\ view.filtered_signals[1].assets.type = "crypto"

----------------------------------------------------------------------------
(* The claim about the market summary, stated on the market table *)

Quotes == db.market_data

Change == [i \in 1..Len(Quotes) |-> NumberOr0(Quotes[i].price_change_pct)]

OfType(t) == {i \in 1..Len(Quotes) : Quotes[i].assets.type = t}

SummaryIs(total, crypto, stock, avg) ==
    /\ view.top
    /\ view.total_assets = total
    /\ view.crypto_count = crypto
    /\ view.stock_count = stock
    /\ view.avg_change.den > 0
    /\ RatEq(view.avg_change, avg)

SummaryOfQuotes ==
    SummaryIs(Len(Quotes), Cardinality(OfType("crypto")), Cardinality(OfType("stock")),
              Rat(Total(Change, 1..Len(Quotes)),
                  IF Len(Quotes) > 1 THEN Len(Quotes) ELSE 1))

\* C10 (as claimed): for every quote collection, the empty one included,
\* main() yields the summary: the counts and the mean change, all 0 when
\* there is no quote.
C10_SummaryOfEveryCollection == lastRun.op # "none" => SummaryOfQuotes

\* C10 (amended): for every non-empty quote collection main() yields the
\* counts and the mean change; for the empty collection it shows the "No
\* market data available" warning and computes no summary.
C10_SummaryOfNonEmpty ==
    lastRun.op # "none" =>
        IF Quotes = <<>> THEN view.status = "no_market_data" /\ ~view.top
        ELSE SummaryOfQuotes

\* C10 witness: a crypto quote at +5, a stock quote at -3 and one without a
\* change: 3 quotes, 1 crypto, 2 stock, mean 2/3.
C10_Witness ==
    /\ Len(Quotes)  = 3
    /\ Change = <<5, -3, 0>>
    /\ Quotes[3].price_change_pct = None
    /\ SummaryIs(3, 1, 2, Rat(2, 3))

----------------------------------------------------------------------------
(* The claims about the holdings main() is given, stated on the rows the    *)
(* holdings fetch returned (prices in hundredths: the floor 0.01 is 1)      *)

Given == args.holdings

\* The holdings of the breakdown: those with a quantity above 0, in order.
Active == SelectSeq(Given, LAMBDA h: NumberOr0(h.quantity) > 0)

\* C11: the gain/loss % of a holding never divides by zero: with an average
\* price of 0 it is (current price / 0.01 - 1) x 100, with an average price
\* of 0.01 or more it is (current price / average price - 1) x 100.
C11_GainPctFloored ==
    view.breakdown =>
        /\ Len(view.holdings_df) = Len(Active)
        /\ \A k \in 1..Len(Active) :
              LET pct == view.holdings_df[k].GainLossPct
                  avg == NumberOr0(Active[k].average_price)
                  cur == NumberOr0(Active[k].current_price)
              IN  /\ pct.den > 0
                  /\ avg = 0 => RatEq(pct, Rat((cur - 1) * 100, 1))
                  /\ avg >= 1 => RatEq(pct, Rat((cur - avg) * 100, avg))

\* C11 witness: a breakdown with a holding whose average price is 0 (its
\* percentage comes from the floor) and one whose average price is 1.50.
C11_Witness ==
    /\ view.breakdown
    /\ Len(Active) = 2
    /\ Active[1].average_price = Num(0)
    /\ Active[2].average_price = Num(150)
    /\ view.holdings_df[1].GainLossPct.den = 1
    /\ RatEq(view.holdings_df[1].GainLossPct, Rat(-100, 1))
    /\ RatEq(view.holdings_df[2].GainLossPct, Rat(0, 1))

\* The asset a holding with ticker t is to carry: the asset of that symbol,
\* or a placeholder of type stock and currency GBP.
AssetFor(t) ==
    IF \E a \in {AssetsTable[i] : i \in 1..Len(AssetsTable)} : a.symbol = t
    THEN LET a == CHOOSE a \in {AssetsTable[i] : i \in 1..Len(AssetsTable)} :
                      a.symbol = t
         IN  [symbol |-> a.symbol, name |-> a.name, type |-> a.type,
              currency |-> a.currency]
    ELSE [symbol |-> t, name |-> t, type |-> "stock", currency |-> "GBP"]

\* C12 (as claimed): every holding the holdings fetch returns carries a
\* resolved asset, that of its ticker's symbol or else a stock / GBP
\* placeholder, so that main() finds the asset name of every holding it
\* reads it from.
C12_EveryHoldingHasAsset ==
    /\ \A i \in 1..Len(Given) :
          /\ Given[i].assets.present
          /\ [f \in {"symbol", "name", "type", "currency"} |-> Given[i].assets[f]]
                 = AssetFor(Given[i].ticker)
    /\ view.status # "KeyError"

----------------------------------------------------------------------------
(* The claims about sessions sharing the process, stated on the sessions    *)
(* model                                                                    *)

\* C13 (as claimed): the holdings a session's dashboard was given are
\* holdings of that session's current user only, whatever the other
\* sessions did; a session that has logged out is given none.
C13_HoldingsOfOwnUser ==
    \A s \in Sessions :
        \A i \in 1..Len(page[s].holdings) :
            page[s].holdings[i].user_id = ss_get(session_state[s], "user_id")

Flag(state) ==
    "authenticated" \in DOMAIN state /\ state["authenticated"] = "True"

====
